---------------------------- MODULE Spec2Model ----------------------------
(***************************************************************************)
(* Model of python-type-hints-checker (src/src/main.rs): the annotation-   *)
(* gap detector, the diagnostic formatter, the directory walk with its     *)
(* filters, and the parallel aggregation of the per-file blocks into the   *)
(* shared report.                                                          *)
(*                                                                         *)
(* A Rust String is modelled as a sequence of segments: a segment is       *)
(* either the newline "\n" or a non-empty run of characters that holds no  *)
(* newline.  A file name is a sequence of one-character strings, so that   *)
(* starts_with / ends_with are computed on the characters.                 *)
(***************************************************************************)
EXTENDS Integers, Sequences, FiniteSets, TLC

(* ------------------------------ bounds -------------------------------- *)

\* Longest parameter list of the single-function source files.
MaxParams == 2

\* Most entries of the walked root directory.
MaxEntries == 2

\* Threads of the rayon pool.
NumWorkers == 2

(* ---------------------------- constants ------------------------------- *)

PARAMETERS_KIND == 147

TYPED_PARAMETER == 206

TYPED_DEFAULT_PARAMETER == 183

IDENTIFIER == 1

DEFAULT_PARAMETER == 182

(* ------------------------------ strings ------------------------------- *)

NL == "\n"

RECURSIVE SplitAcc(_, _)
\* str::split('\n'): the pieces between the newlines; `cur` is the piece
\* being read.  A text that ends with a newline yields a last empty piece.
SplitAcc(s, cur) ==
    IF s = <<>> THEN <<cur>>
    ELSE IF Head(s) = NL THEN <<cur>> \o SplitAcc(Tail(s), "")
    ELSE SplitAcc(Tail(s), cur \o Head(s))

SplitNewline(s) == SplitAcc(s, "")

RECURSIVE ToStr(_)
\* OsStr::to_str of a file name given by its characters.
ToStr(chars) ==
    IF chars = <<>> THEN "" ELSE Head(chars) \o ToStr(Tail(chars))

StartsWith(s, p) ==
    Len(s) >= Len(p) /\ SubSeq(s, 1, Len(p)) = p

EndsWith(s, p) ==
    Len(s) >= Len(p) /\ SubSeq(s, Len(s) - Len(p) + 1, Len(s)) = p

(* --------------------------- syntax trees ----------------------------- *)

\* A String is a sequence of segments: a segment is either NL or a
\* non-empty text without a newline, and no two texts are adjacent.

\* The String of a text that holds no newline.
Str(s) == IF s = "" THEN <<>> ELSE << s >>

\* String concatenation (format!, +=, the text of adjacent tokens).
Cat(a, b) ==
    IF a = <<>> THEN b
    ELSE IF b = <<>> THEN a
    ELSE IF a[Len(a)] # NL /\ b[1] # NL
        THEN SubSeq(a, 1, Len(a) - 1) \o << a[Len(a)] \o b[1] >> \o Tail(b)
    ELSE a \o b

\* The newlines of a String, and the length of what follows the last one.
Newlines(t) == Cardinality({ i \in 1..Len(t) : t[i] = NL })

LastLineLen(t) == IF t = <<>> \/ t[Len(t)] = NL THEN 0 ELSE Len(t[Len(t)])

\* The point where a text that starts at (row, column) ends.
EndRow(row, t) == row + Newlines(t)

EndColumn(column, t) ==
    IF Newlines(t) = 0 THEN column + LastLineLen(t) ELSE LastLineLen(t)

\* Node::kind_id of the node kinds the program matches by number; every
\* other kind of the grammar has some other id.
KindId(kind) ==
    CASE kind = "identifier" -> IDENTIFIER
      [] kind = "parameters" -> PARAMETERS_KIND
      [] kind = "default_parameter" -> DEFAULT_PARAMETER
      [] kind = "typed_parameter" -> TYPED_PARAMETER
      [] kind = "typed_default_parameter" -> TYPED_DEFAULT_PARAMETER
      [] OTHER -> 0

Point(row, column) == [row |-> row, column |-> column]

\* A node: Node::kind, Node::utf8_text (a String), Node::start_position
\* and the children.
Node(kind, text, row, column, children) ==
    [kind |-> kind, text |-> text, start |-> Point(row, column),
     children |-> children]

\* A node without children whose text holds no newline.
Leaf(kind, s, row, column) == Node(kind, Str(s), row, column, <<>>)

\* An anonymous token: its kind is its text.
Token(s, row, column) == Leaf(s, s, row, column)

RECURSIVE Spaces(_)
Spaces(n) == IF n = 0 THEN "" ELSE " " \o Spaces(n - 1)

\* The parameters a source file may write: [kind, name, text].  The
\* default value of `e` is a list written over two lines.
ParamSpecs ==
    { [kind |-> "identifier", name |-> "a", text |-> << "a" >>],
      [kind |-> "identifier", name |-> "self", text |-> << "self" >>],
      [kind |-> "default_parameter", name |-> "b", text |-> << "b=1" >>],
      [kind |-> "default_parameter", name |-> "e",
       text |-> << "e=[1,", NL, "2]" >>],
      [kind |-> "typed_parameter", name |-> "c", text |-> << "c: int" >>],
      [kind |-> "typed_default_parameter", name |-> "d",
       text |-> << "d: int = 5" >>] }

\* The `type` node of the annotation `int`.
TypeNode(row, column) ==
    Node("type", Str("int"), row, column,
         << Leaf("identifier", "int", row, column) >>)

\* The default value written at (row, column): the integer 1, or the
\* list whose second element is on the next line.
ValueNode(p, row, column) ==
    IF Newlines(p.text) = 0
        THEN Leaf("integer", "1", row, column)
        ELSE Node("list", << "[1,", NL, "2]" >>, row, column,
                  << Token("[", row, column),
                     Leaf("integer", "1", row, column + 1),
                     Token(",", row, column + 2),
                     Leaf("integer", "2", row + 1, 0),
                     Token("]", row + 1, 1) >>)

\* The node of one parameter written at (row, column).
ParamNode(p, row, column) ==
    CASE p.kind = "identifier" -> Node("identifier", p.text, row, column, <<>>)
      [] p.kind = "default_parameter" ->
           Node("default_parameter", p.text, row, column,
                << Leaf("identifier", p.name, row, column),
                   Token("=", row, column + 1),
                   ValueNode(p, row, column + 2) >>)
      [] p.kind = "typed_parameter" ->
           Node("typed_parameter", p.text, row, column,
                << Leaf("identifier", p.name, row, column),
                   Token(":", row, column + 1),
                   TypeNode(row, column + 3) >>)
      [] OTHER ->
           Node("typed_default_parameter", p.text, row, column,
                << Leaf("identifier", p.name, row, column),
                   Token(":", row, column + 1),
                   TypeNode(row, column + 3),
                   Token("=", row, column + 7),
                   Leaf("integer", "5", row, column + 9) >>)

RECURSIVE ParamsText(_)
ParamsText(ps) ==
    IF ps = <<>> THEN <<>>
    ELSE IF Len(ps) = 1 THEN ps[1].text
    ELSE Cat(ps[1].text, Cat(Str(", "), ParamsText(Tail(ps))))

ParametersText(ps) == Cat(Str("("), Cat(ParamsText(ps), Str(")")))

RECURSIVE ParamChildren(_, _, _)
\* The children of a parameter list after its "(": the parameters, the
\* commas between them and the closing ")".
ParamChildren(ps, row, column) ==
    IF ps = <<>> THEN << Token(")", row, column) >>
    ELSE LET r == EndRow(row, ps[1].text)
             c == EndColumn(column, ps[1].text)
         IN  IF Len(ps) = 1
                THEN << ParamNode(ps[1], row, column), Token(")", r, c) >>
                ELSE << ParamNode(ps[1], row, column), Token(",", r, c) >>
                     \o ParamChildren(Tail(ps), r, c + 2)

ParametersNode(ps, row, column) ==
    Node("parameters", ParametersText(ps), row, column,
         << Token("(", row, column) >> \o ParamChildren(ps, row, column + 1))

\* A function of a source file: [shape, name, params, ret, body], the
\* shape being "def" or "async".
Keywords(f) == IF f.shape = "async" THEN "async def " ELSE "def "

HeaderText(f) ==
    Cat(Str(Keywords(f) \o f.name),
        Cat(ParametersText(f.params),
            Str((IF f.ret THEN " -> int" ELSE "") \o ":")))

RECURSIVE FuncHeight(_)
RECURSIVE BodyHeight(_)
FuncHeight(f) == 1 + Newlines(HeaderText(f)) + BodyHeight(f.body)
BodyHeight(fs) ==
    IF fs = <<>> THEN 1
    ELSE IF Len(fs) = 1 THEN FuncHeight(fs[1])
    ELSE FuncHeight(fs[1]) + BodyHeight(Tail(fs))

RECURSIVE FuncText(_, _)
RECURSIVE BodyText(_, _)
FuncText(f, column) ==
    Cat(HeaderText(f),
        << NL >> \o Cat(Str(Spaces(column + 4)), BodyText(f.body, column + 4)))
BodyText(fs, column) ==
    IF fs = <<>> THEN Str("pass")
    ELSE IF Len(fs) = 1 THEN FuncText(fs[1], column)
    ELSE Cat(FuncText(fs[1], column),
             << NL >> \o Cat(Str(Spaces(column)), BodyText(Tail(fs), column)))

RECURSIVE FuncNode(_, _, _)
RECURSIVE FuncNodes(_, _, _)
\* The function_definition node of f written at (row, column).
FuncNode(f, row, column) ==
    LET kw == Len(Keywords(f))
        pcol == column + kw + Len(f.name)
        rrow == EndRow(row, ParametersText(f.params))
        rcol == EndColumn(pcol, ParametersText(f.params))
        head ==
            (IF f.shape = "async"
                THEN << Token("async", row, column), Token("def", row, column + 6) >>
                ELSE << Token("def", row, column) >>)
            \o << Leaf("identifier", f.name, row, column + kw),
                  ParametersNode(f.params, row, pcol) >>
        ret ==
            IF f.ret
                THEN << Token("->", rrow, rcol + 1),
                        TypeNode(rrow, rcol + 4),
                        Token(":", rrow, rcol + 7) >>
                ELSE << Token(":", rrow, rcol) >>
        block ==
            Node("block", BodyText(f.body, column + 4), rrow + 1, column + 4,
                 IF f.body = <<>>
                    THEN << Token("pass", rrow + 1, column + 4) >>
                    ELSE FuncNodes(f.body, rrow + 1, column + 4))
    IN  Node("function_definition", FuncText(f, column), row, column,
             head \o ret \o << block >>)
FuncNodes(fs, row, column) ==
    IF fs = <<>> THEN <<>>
    ELSE << FuncNode(fs[1], row, column) >>
         \o FuncNodes(Tail(fs), row + FuncHeight(fs[1]), column)

\* The tree the parser returns for a source file that writes the
\* functions fs one after the other; a file without functions holds a
\* single `pass`.
ModuleNode(fs) ==
    Node("module", BodyText(fs, 0), 0, 0,
         IF fs = <<>> THEN << Token("pass", 0, 0) >> ELSE FuncNodes(fs, 0, 0))

(* --------------------------- gap detector ----------------------------- *)

RECURSIVE TraversePost(_)
RECURSIVE TraversePostAll(_)
\* Mutation of Traverse: Order::Post, a node after its children.
TraversePost(node) == TraversePostAll(node.children) \o << node >>
TraversePostAll(nodes) ==
    IF nodes = <<>> THEN <<>>
    ELSE TraversePost(Head(nodes)) \o TraversePostAll(Tail(nodes))

\* tree_sitter_traversal::traverse(walk, Order::Pre): every node of the
\* tree, a node before its children, the children left to right.
RECURSIVE Traverse(_)
RECURSIVE TraverseAll(_)
Traverse(node) == << node >> \o TraverseAll(node.children)
TraverseAll(nodes) ==
    IF nodes = <<>> THEN <<>>
    ELSE Traverse(Head(nodes)) \o TraverseAll(Tail(nodes))

ReturnPosition(node, name) ==
    [start |-> node.start, missing_type |-> [tag |-> "Return", name |-> name]]

ParameterPosition(node) ==
    [start |-> node.start,
     missing_type |-> [tag |-> "Parameter", name |-> node.text]]

\* Mutation of IsUntypedParameter: the default parameters are forgotten.
IsPlainIdentifier(inner_child) == KindId(inner_child.kind) = IDENTIFIER

\* matches!(inner_child.kind_id(), IDENTIFIER | DEFAULT_PARAMETER)
IsUntypedParameter(inner_child) ==
    KindId(inner_child.kind) \in {IDENTIFIER, DEFAULT_PARAMETER}

\* if let Ok("self") = utf8_text
IsSelf(inner_child) == inner_child.text = Str("self")

RECURSIVE ParameterPositions(_)
\* The inner loop over the children of a parameter list.
ParameterPositions(inner_children) ==
    IF inner_children = <<>> THEN <<>>
    ELSE LET inner_child == Head(inner_children)
             rest == ParameterPositions(Tail(inner_children))
         IN  IF IsUntypedParameter(inner_child) /\ ~IsSelf(inner_child)
                THEN << ParameterPosition(inner_child) >> \o rest
                ELSE rest

RECURSIVE ChildrenPositions(_)
\* The loop over the children of a function definition: what it pushes.
ChildrenPositions(children) ==
    IF children = <<>> THEN <<>>
    ELSE LET child == Head(children)
             rest == ChildrenPositions(Tail(children))
         IN  IF KindId(child.kind) = PARAMETERS_KIND
                THEN ParameterPositions(child.children) \o rest
                ELSE rest

\* The loop over the children of a function definition: has_return_type.
HasReturnType(node) ==
    \E i \in 1..Len(node.children) : node.children[i].kind = "type"

\* Mutation of ShouldReportReturn: the flag is not read.
ShouldReportReturnAlways(has_return_type, ignore_return) == ~has_return_type

\* !has_return_type & !ignore_return
ShouldReportReturn(has_return_type, ignore_return) ==
    ~has_return_type /\ ~ignore_return

\* Mutation of FunctionName: no fall back to child(2) after `def`.
FunctionNameSecondChild(node) ==
    IF Len(node.children) < 2 THEN [ok |-> FALSE, name |-> <<>>]
    ELSE [ok |-> TRUE, name |-> node.children[2].text]

\* node.child(1), and node.child(2) when the text of child(1) is "def";
\* expect() panics when the child is missing.  Every function node of the
\* source files above has its `def` and its name, so the panic is not
\* taken on them.
FunctionName(node) ==
    IF Len(node.children) < 2 THEN [ok |-> FALSE, name |-> <<>>]
    ELSE IF node.children[2].text = Str("def")
        THEN IF Len(node.children) < 3 THEN [ok |-> FALSE, name |-> <<>>]
             ELSE [ok |-> TRUE, name |-> node.children[3].text]
        ELSE [ok |-> TRUE, name |-> node.children[2].text]

\* if function_name == "main" { continue; }
IsExcludedName(function_name) == function_name = Str("main")

\* if node.kind() == "function_definition"
IsFunctionDefinition(node) == node.kind = "function_definition"

\* One iteration of the loop over the traversal, for a node that is a
\* function definition.  acc is [panicked, results]; a panic leaves no
\* results.
VisitNode(acc, node, ignore_return) ==
    IF acc.panicked THEN acc
    ELSE LET pushed == acc.results \o ChildrenPositions(node.children)
             fname == FunctionName(node)
         IN  IF ~ShouldReportReturn(HasReturnType(node), ignore_return)
                THEN [panicked |-> FALSE, results |-> pushed]
             ELSE IF ~fname.ok
                THEN [panicked |-> TRUE, results |-> <<>>]
             ELSE IF IsExcludedName(fname.name)
                THEN [panicked |-> FALSE, results |-> pushed]
             ELSE [panicked |-> FALSE,
                   results |-> Append(pushed, ReturnPosition(node, fname.name))]

RECURSIVE VisitNodes(_, _, _)
VisitNodes(acc, nodes, ignore_return) ==
    IF nodes = <<>> THEN acc
    ELSE VisitNodes(VisitNode(acc, Head(nodes), ignore_return),
                    Tail(nodes), ignore_return)

\* find_missing_types_positions: [panicked, results].
FindMissingTypesPositions(tree, ignore_return) ==
    VisitNodes([panicked |-> FALSE, results |-> <<>>],
               SelectSeq(Traverse(tree), IsFunctionDefinition), ignore_return)

(* ------------------------- diagnostic formatter ----------------------- *)

\* What format! writes for one position: the text around the name, the
\* name as the source wrote it (newlines included), and a closing newline.
PositionMessage(position) ==
    LET place ==
            "' in line " \o ToString(position.start.row + 1)
            \o " and column " \o ToString(position.start.column + 1)
    IN  IF position.missing_type.tag = "Return"
            THEN Cat(Cat(Str("Function '"), position.missing_type.name),
                     Str(place \o " is missing a return type."))
                 \o << NL >>
            ELSE Cat(Cat(Str("Parameter '"), position.missing_type.name),
                     Str(place \o " is missing a type hint."))
                 \o << NL >>

RECURSIVE GetMessageFromPositions(_)
GetMessageFromPositions(positions) ==
    IF positions = <<>> THEN <<>>
    ELSE Cat(PositionMessage(Head(positions)),
             GetMessageFromPositions(Tail(positions)))

(* ------------------------------ inputs -------------------------------- *)

Fn(shape, name, params, ret, body) ==
    [shape |-> shape, name |-> name, params |-> params, ret |-> ret,
     body |-> body]

ParamLists(n) == UNION { [1..k -> ParamSpecs] : k \in 0..n }

SingleFuncs ==
    { Fn(shape, name, ps, ret, <<>>) :
        shape \in {"def", "async"}, name \in {"f", "main"},
        ps \in ParamLists(MaxParams), ret \in BOOLEAN }

ParamA == [kind |-> "identifier", name |-> "a", text |-> << "a" >>]
ParamSelf == [kind |-> "identifier", name |-> "self", text |-> << "self" >>]
ParamB == [kind |-> "default_parameter", name |-> "b", text |-> << "b=1" >>]
ParamC == [kind |-> "typed_parameter", name |-> "c", text |-> << "c: int" >>]

ParamE ==
    [kind |-> "default_parameter", name |-> "e",
     text |-> << "e=[1,", NL, "2]" >>]

SmallFuncs ==
    { Fn("def", "f", <<ParamA>>, FALSE, <<>>),
      Fn("def", "main", <<ParamSelf, ParamB>>, FALSE, <<>>),
      Fn("async", "main", <<ParamA>>, FALSE, <<>>),
      Fn("def", "g", <<ParamC>>, TRUE, <<>>),
      Fn("async", "h", <<>>, FALSE, <<>>) }

\* The function lists of the source files given in single-file mode: no
\* function, one function, two functions in a row, a function in a function.
FileFuncs ==
    { <<>> }
    \cup { <<f>> : f \in SingleFuncs }
    \cup { <<f, g>> : f \in SmallFuncs, g \in SmallFuncs }
    \cup { << Fn(f.shape, f.name, f.params, f.ret, <<g>>) >> :
             f \in SmallFuncs, g \in SmallFuncs }

\* What a path holds: a file that read_to_string can read and the
\* functions it writes, or one it cannot read.
Source(funcs) == [readable |-> TRUE, funcs |-> funcs]
Unreadable == [readable |-> FALSE, funcs |-> <<>>]

File(name, source) ==
    [name |-> name, is_dir |-> FALSE, children |-> {}, source |-> source]
Dir(name, children) ==
    [name |-> name, is_dir |-> TRUE, children |-> children, source |-> Unreadable]

TwoFindings == Source(<< Fn("def", "f", <<ParamA>>, FALSE, <<>>) >>)
OneFinding == Source(<< Fn("def", "g", <<ParamC>>, FALSE, <<>>) >>)
NoFinding == Source(<< Fn("def", "main", <<>>, FALSE, <<>>) >>)
MultiLine == Source(<< Fn("def", "f", <<ParamE>>, TRUE, <<>>) >>)

\* The entries a walked directory may hold.  A directory is the set of
\* its entries: the order in which it lists them is the file system's.
DirEntries ==
    { File(<<"a", ".", "p", "y">>, TwoFindings),
      File(<<"n", ".", "t", "x", "t">>, TwoFindings),
      Dir(<<"t", "e", "s", "t", "s">>,
          { File(<<"t", ".", "p", "y">>, NoFinding) }),
      Dir(<<".", "g", "i", "t">>,
          { File(<<"u", ".", "p", "y">>, Unreadable) }),
      Dir(<<"d", ".", "p", "y">>,
          { File(<<"m", ".", "p", "y">>, MultiLine),
            File(<<"t", "e", "s", "t", "_", "m", ".", "p", "y">>, OneFinding) }) }

\* The directories of at most MaxEntries of these entries.
Listings == { c \in SUBSET DirEntries : Cardinality(c) <= MaxEntries }

RootNames == { <<".">>, <<".", "v">> }

(* ------------------------------- state -------------------------------- *)

VARIABLES
    args,        \* the parsed command line: the three flags
    root,        \* what args.path names: a file or a directory
    pc,          \* where main is
    tree,        \* single-file mode: the parsed tree
    positions,   \* single-file mode: what find_missing_types_positions returned
    message,     \* the report: the Mutex<String>, or main's local String
    lock,        \* the worker that holds the Mutex, or 0
    iter,        \* the walkdir iterator: the open directories
    worker,      \* each pool thread in add_to_message_from_file
    stdout,      \* what the process printed
    exit_code,   \* the exit status, -1 while the process runs
    analysed,    \* history: the files given to get_message_from_file
    owner        \* history: the file that wrote each segment of message

vars ==
    << args, root, pc, tree, positions, message, lock, iter, worker, stdout,
       exit_code, analysed, owner >>

Workers == 1..NumWorkers

NoTree == Node("none", "", 0, 0, <<>>)

NoPositions == [panicked |-> FALSE, results |-> <<>>]

Idle == [pc |-> "idle", comps |-> <<>>, node |-> Dir(<<>>, {}),
         messages_from_file |-> <<>>, lines |-> <<>>]

Init ==
    /\ \/ /\ root \in { File(<<"m", ".", "p", "y">>, Source(fs)) : fs \in FileFuncs }
                      \cup { File(<<"m", ".", "p", "y">>, Unreadable) }
          /\ args \in [ignore_hidden : {FALSE}, ignore_tests : {FALSE},
                       ignore_return : BOOLEAN]
       \/ /\ root \in { Dir(name, l) : name \in RootNames, l \in Listings }
          /\ args \in [ignore_hidden : BOOLEAN, ignore_tests : BOOLEAN,
                       ignore_return : BOOLEAN]
    /\ pc = "main"
    /\ tree = NoTree
    /\ positions = NoPositions
    /\ message = <<>>
    /\ lock = 0
    /\ iter = <<>>
    /\ worker = [w \in Workers |-> Idle]
    /\ stdout = <<>>
    /\ exit_code = -1
    /\ analysed = {}
    /\ owner = <<>>

(* --------------------------- per-file work ---------------------------- *)

\* get_tree_from_file: read_to_string panics on a file it cannot read;
\* otherwise the parser's tree.
GetTreeFromFile(source) ==
    IF source.readable
        THEN [panicked |-> FALSE, tree |-> ModuleNode(source.funcs)]
        ELSE [panicked |-> TRUE, tree |-> NoTree]

\* get_message_from_file: [panicked, message].
GetMessageFromFile(source, ignore_return) ==
    LET parsed == GetTreeFromFile(source)
        found == FindMissingTypesPositions(parsed.tree, ignore_return)
    IN  IF parsed.panicked \/ found.panicked
            THEN [panicked |-> TRUE, message |-> <<>>]
            ELSE [panicked |-> FALSE,
                  message |-> GetMessageFromPositions(found.results)]

\* Mutation of ExitStatus: a panic is swallowed.
ExitStatusZero(panicked) == 0

\* The exit status of the process: 0 when main returns, 101 when a panic
\* unwinds out of main.
ExitStatus(panicked) == IF panicked THEN 101 ELSE 0

\* println!: the sparkles character U+2728, a space and "All good!", then
\* the newline.  The module is ASCII, so the character is written U+2728.
Sentinel == << "U+2728 All good!", NL >>

\* Mutation of Printed: the report is printed whatever it holds.
PrintedAsIs(text) == text

\* if message.is_empty() { println!(..) } else { print!("{}", message) }
Printed(text) == IF text = <<>> THEN Sentinel ELSE text

(* ------------------------- walk and its filters ----------------------- *)

\* NotHidden::should_be_processed
NotHidden(file_name) ==
    ~StartsWith(file_name, <<".">>) \/ file_name = <<".">>

\* NotTest::should_be_processed
NotTest(file_name) ==
    ~StartsWith(file_name, <<"t", "e", "s", "t", "_">>)
    /\ file_name # <<"t", "e", "s", "t", "s">>

\* filters.iter().all(|filter| filter.should_be_processed(x)), the filters
\* being those main pushed for the flags that are set.
PassesFilters(flags, file_name) ==
    /\ flags.ignore_hidden => NotHidden(file_name)
    /\ flags.ignore_tests => NotTest(file_name)

\* An entry of the walk: the names from the root down to it, and what is there.
Entry(comps, node) == [comps |-> comps, node |-> node]

FileName(entry) == entry.comps[Len(entry.comps)]

RECURSIVE PathStr(_)
\* DirEntry::path as text: the names joined by "/".
PathStr(comps) ==
    IF Len(comps) = 1 THEN ToStr(comps[1])
    ELSE ToStr(comps[1]) \o "/" \o PathStr(Tail(comps))

\* The entries read_dir gives for a directory.
ChildEntries(entry) ==
    { Entry(Append(entry.comps, child.name), child) :
        child \in entry.node.children }

\* The walk is a stack of open directories, the deepest first; each is
\* the set of its entries not yet read.

\* Mutation of Descend: filter in place of filter_entry.
DescendAlways(entry, accepted) == << ChildEntries(entry) >>

\* filter_entry: the directory of an entry is opened only when the
\* predicate accepted it (skip_current_dir otherwise).
Descend(entry, accepted) ==
    IF accepted /\ entry.node.is_dir THEN << ChildEntries(entry) >> ELSE <<>>

RECURSIVE Skip(_, _)
\* FilterEntry::next up to an entry the predicate accepts: directories
\* read to their end are closed, entries the predicate rejects are passed
\* over.
Skip(stack, flags) ==
    IF stack = <<>> THEN <<>>
    ELSE IF Head(stack) = {} THEN Skip(Tail(stack), flags)
    ELSE LET rejected ==
                 { e \in Head(stack) : ~PassesFilters(flags, FileName(e)) }
         IN  IF rejected = {} THEN stack
             ELSE LET e == CHOOSE x \in rejected : TRUE
                  IN  Skip(Descend(e, FALSE)
                           \o << Head(stack) \ {e} >> \o Tail(stack), flags)

\* FilterEntry::next: the entries the walk may give next, each with the
\* walk after it.  The open directory gives its entries in the order of
\* the file system, which is any order.
NextEntries(stack, flags) ==
    LET open == Skip(stack, flags)
    IN  IF open = <<>> THEN {}
        ELSE { [entry |-> e,
                stack |-> Descend(e, TRUE)
                          \o << Head(open) \ {e} >> \o Tail(open)] :
                 e \in Head(open) }

\* !is_dir && file_name.ends_with(".py")
IsCandidate(entry) ==
    ~entry.node.is_dir /\ EndsWith(FileName(entry), <<".", "p", "y">>)

\* format!("File: {}\n", path)
HeaderLine(comps) == Cat(Str("File: "), Str(PathStr(comps))) \o << NL >>

\* "    ".to_string() + line + "\n"
IndentedLine(line) == Cat(Str("    "), Str(line)) \o << NL >>

\* Mutation of CanLock: the report is written without the Mutex.
CanLockAlways(w) == TRUE

\* message.lock(): the Mutex is free.
CanLock(w) == lock = 0

(* ------------------------------ actions ------------------------------- *)

\* main up to `if path.is_dir()`.
MainStart ==
    /\ pc = "main"
    /\ pc' = IF root.is_dir THEN "for_each" ELSE "get_tree"
    /\ iter' = IF root.is_dir THEN << { Entry(<<root.name>>, root) } >> ELSE <<>>
    /\ UNCHANGED << args, root, tree, positions, message, lock, worker, stdout,
                    exit_code, analysed, owner >>

\* Single-file mode, get_message_from_file: get_tree_from_file.
FileParse ==
    /\ pc = "get_tree"
    /\ LET parsed == GetTreeFromFile(root.source)
       IN  /\ tree' = parsed.tree
           /\ pc' = IF parsed.panicked THEN "exit" ELSE "find"
           /\ exit_code' = IF parsed.panicked THEN ExitStatus(TRUE) ELSE exit_code
    /\ analysed' = { [comps |-> <<root.name>>,
                      result |-> GetMessageFromFile(root.source, args.ignore_return)] }
    /\ UNCHANGED << args, root, positions, message, lock, iter, worker, stdout,
                    owner >>

\* Single-file mode, get_message_from_file: find_missing_types_positions.
FileFind ==
    /\ pc = "find"
    /\ positions' = FindMissingTypesPositions(tree, args.ignore_return)
    /\ pc' = IF positions'.panicked THEN "exit" ELSE "format"
    /\ exit_code' = IF positions'.panicked THEN ExitStatus(TRUE) ELSE exit_code
    /\ UNCHANGED << args, root, tree, message, lock, iter, worker, stdout,
                    analysed, owner >>

\* Single-file mode, get_message_from_file: get_message_from_positions.
FileFormat ==
    /\ pc = "format"
    /\ message' = GetMessageFromPositions(positions.results)
    /\ pc' = "print"
    /\ UNCHANGED << args, root, tree, positions, lock, iter, worker, stdout,
                    exit_code, analysed, owner >>

\* Single-file mode: main prints and returns.
FilePrint ==
    /\ pc = "print"
    /\ stdout' = Printed(message)
    /\ pc' = "exit"
    /\ exit_code' = ExitStatus(FALSE)
    /\ UNCHANGED << args, root, tree, positions, message, lock, iter, worker,
                    analysed, owner >>

\* Directory mode: a pool thread pulls the next entry of the filtered walk
\* from the bridged iterator and is handed it by for_each.
Take(w) ==
    /\ pc = "for_each"
    /\ worker[w].pc = "idle"
    /\ \E next \in NextEntries(iter, args) :
           /\ iter' = next.stack
           /\ worker' = [worker EXCEPT ![w] =
                  [pc |-> "entry", comps |-> next.entry.comps,
                   node |-> next.entry.node, messages_from_file |-> <<>>,
                   lines |-> <<>>]]
    /\ UNCHANGED << args, root, pc, tree, positions, message, lock, stdout,
                    exit_code, analysed, owner >>

\* add_to_message_from_file up to the lock, on the thread's own entry: the
\* entry is skipped, or its file is analysed; the call then panics,
\* returns on an empty text, or goes on to the lock.
Analyse(w) ==
    /\ worker[w].pc = "entry"
    /\ LET entry == Entry(worker[w].comps, worker[w].node)
           result == GetMessageFromFile(entry.node.source, args.ignore_return)
       IN  IF ~IsCandidate(entry)
              THEN /\ worker' = [worker EXCEPT ![w] = Idle]
                   /\ analysed' = analysed
              ELSE /\ analysed' = analysed \cup
                          { [comps |-> entry.comps, result |-> result] }
                   /\ worker' = [worker EXCEPT ![w] =
                          IF result.panicked
                             THEN [Idle EXCEPT !.pc = "panicked"]
                          ELSE IF result.message = <<>> THEN Idle
                          ELSE [@ EXCEPT !.pc = "lock",
                                         !.messages_from_file = result.message]]
    /\ UNCHANGED << args, root, pc, tree, positions, message, lock, iter,
                    stdout, exit_code, owner >>

\* message.lock()
Lock(w) ==
    /\ worker[w].pc = "lock"
    /\ CanLock(w)
    /\ lock' = w
    /\ worker' = [worker EXCEPT ![w].pc = "header"]
    /\ UNCHANGED << args, root, pc, tree, positions, message, iter, stdout,
                    exit_code, analysed, owner >>

\* *message += "File: <path>\n"; then messages_from_file.split('\n').
AppendHeader(w) ==
    /\ worker[w].pc = "header"
    /\ message' = Cat(message, HeaderLine(worker[w].comps))
    /\ owner' = owner \o << worker[w].comps, worker[w].comps >>
    /\ worker' = [worker EXCEPT ![w].pc = "lines",
                     ![w].lines = SplitNewline(worker[w].messages_from_file)]
    /\ UNCHANGED << args, root, pc, tree, positions, lock, iter, stdout,
                    exit_code, analysed >>

\* One iteration of `for line in messages_from_file`.
AppendLine(w) ==
    /\ worker[w].pc = "lines"
    /\ worker[w].lines # <<>>
    /\ message' = Cat(message, IndentedLine(Head(worker[w].lines)))
    /\ owner' = owner \o << worker[w].comps, worker[w].comps >>
    /\ worker' = [worker EXCEPT ![w].lines = Tail(@)]
    /\ UNCHANGED << args, root, pc, tree, positions, lock, iter, stdout,
                    exit_code, analysed >>

\* The loop is over: add_to_message_from_file returns and drops the guard.
Return(w) ==
    /\ worker[w].pc = "lines"
    /\ worker[w].lines = <<>>
    /\ lock' = IF lock = w THEN 0 ELSE lock
    /\ worker' = [worker EXCEPT ![w] = Idle]
    /\ UNCHANGED << args, root, pc, tree, positions, message, iter, stdout,
                    exit_code, analysed, owner >>

\* Directory mode: for_each is over once no entry is left and no thread
\* works on one.  A panic of a thread is resumed in main; otherwise main
\* locks the report, prints and returns.
Join ==
    /\ pc = "for_each"
    /\ \A w \in Workers : worker[w].pc \in {"idle", "panicked"}
    /\ \/ NextEntries(iter, args) = {}
       \/ \A w \in Workers : worker[w].pc = "panicked"
    /\ LET panicked == \E w \in Workers : worker[w].pc = "panicked"
       IN  /\ stdout' = IF panicked THEN stdout ELSE Printed(message)
           /\ exit_code' = ExitStatus(panicked)
    /\ pc' = "exit"
    /\ UNCHANGED << args, root, tree, positions, message, lock, iter, worker,
                    analysed, owner >>

Next ==
    \/ MainStart
    \/ FileParse
    \/ FileFind
    \/ FileFormat
    \/ FilePrint
    \/ \E w \in Workers : Take(w)
    \/ \E w \in Workers : Analyse(w)
    \/ \E w \in Workers : Lock(w)
    \/ \E w \in Workers : AppendHeader(w)
    \/ \E w \in Workers : AppendLine(w)
    \/ \E w \in Workers : Return(w)
    \/ Join

Spec == Init /\ [][Next]_vars

(* ------------------- what the properties speak about ------------------ *)

RECURSIVE Descendants(_)
\* A node and every node below it.
Descendants(node) ==
    {node} \cup UNION { Descendants(node.children[i]) :
                          i \in 1..Len(node.children) }

FunctionNodes(t) ==
    { n \in Descendants(t) : n.kind = "function_definition" }

\* The immediate children of the parameter lists of a function node.
ParameterNodes(fn) ==
    UNION { { fn.children[i].children[j] : j \in 1..Len(fn.children[i].children) } :
              i \in { k \in 1..Len(fn.children) : fn.children[k].kind = "parameters" } }

\* Those that carry no type and are not `self`.
UnannotatedParameters(fn) ==
    { p \in ParameterNodes(fn) :
        /\ p.kind \in {"identifier", "default_parameter"}
        /\ p.text # << "self" >> }

\* The name a function node writes: its first identifier child.
HasNameChild(fn) ==
    \E i \in 1..Len(fn.children) : fn.children[i].kind = "identifier"

WrittenName(fn) ==
    LET first == CHOOSE i \in 1..Len(fn.children) :
                    /\ fn.children[i].kind = "identifier"
                    /\ \A k \in 1..(i - 1) : fn.children[k].kind # "identifier"
    IN  fn.children[first].text

HasTypeChild(fn) ==
    \E i \in 1..Len(fn.children) : fn.children[i].kind = "type"

\* Document order of two positions.
Before(p, q) ==
    p.row < q.row \/ (p.row = q.row /\ p.column < q.column)

IsParameterFinding(position) == position.missing_type.tag = "Parameter"

IsReturnFinding(position) == position.missing_type.tag = "Return"

\* The function a finding belongs to.
Owns(fn, position) ==
    \/ IsReturnFinding(position) /\ fn.start = position.start
    \/ /\ IsParameterFinding(position)
       /\ \E p \in ParameterNodes(fn) : p.start = position.start

\* The diagnostic the formatter is to write for a finding, without its
\* closing newline; it spans several lines when the name does.
DiagnosticText(position) ==
    Cat(Str(IF IsReturnFinding(position) THEN "Function '" ELSE "Parameter '"),
        Cat(position.missing_type.name,
            Str("' in line " \o ToString(position.start.row + 1)
                \o " and column " \o ToString(position.start.column + 1)
                \o (IF IsReturnFinding(position)
                       THEN " is missing a return type."
                       ELSE " is missing a type hint."))))

RECURSIVE ExpectedText(_)
\* The text of a list of findings: each diagnostic and its newline.
ExpectedText(R) ==
    IF R = <<>> THEN <<>>
    ELSE DiagnosticText(Head(R)) \o << NL >> \o ExpectedText(Tail(R))

\* The lines of a text in which every line ends with a newline.
NthNewline(t, k) ==
    CHOOSE i \in 1..Len(t) :
        t[i] = NL /\ Cardinality({ j \in 1..i : t[j] = NL }) = k

TextLines(t) ==
    [k \in 1..Newlines(t) |->
        LET i == NthNewline(t, k)
        IN  IF i = 1 \/ t[i - 1] = NL THEN "" ELSE t[i - 1]]

\* Single-file mode: find_missing_types_positions has run on `tree`.
AfterFind == tree # NoTree /\ pc \in {"format", "print", "exit"}

\* ... and has returned its list.
Detected == AfterFind /\ ~positions.panicked

\* Directory mode: main has read the report after for_each.
ReportRead == root.is_dir /\ pc = "exit" /\ exit_code = 0

RECURSIVE FilesBelow(_)
\* Every entry at or below an entry of the walk.
FilesBelow(entry) ==
    {entry} \cup UNION { FilesBelow(child) : child \in ChildEntries(entry) }

IsHiddenName(name) == name # <<>> /\ name[1] = "." /\ name # <<".">>

IsTestName(name) ==
    \/ name = <<"t", "e", "s", "t", "s">>
    \/ Len(name) >= 5 /\ [i \in 1..5 |-> name[i]] = <<"t", "e", "s", "t", "_">>

\* No name on the way from the root to the entry is excluded by a flag
\* that is set.
AllowedPath(comps) ==
    \A i \in 1..Len(comps) :
        /\ args.ignore_hidden => ~IsHiddenName(comps[i])
        /\ args.ignore_tests => ~IsTestName(comps[i])

\* The candidate files of the run: the .py files under the root that no
\* active filter excludes.
CandidateFiles ==
    { e \in FilesBelow(Entry(<<root.name>>, root)) :
        /\ ~e.node.is_dir
        /\ Len(FileName(e)) >= 3
        /\ [i \in 1..3 |-> FileName(e)[Len(FileName(e)) - 3 + i]] = <<".", "p", "y">>
        /\ AllowedPath(e.comps) }

\* The findings of a candidate file, and the lines they are to give.
FindingsOf(e) ==
    FindMissingTypesPositions(ModuleNode(e.node.source.funcs), args.ignore_return)

HasFindings(e) ==
    e.node.source.readable /\ ~FindingsOf(e).panicked /\ FindingsOf(e).results # <<>>

ExpectedLines(e) == TextLines(ExpectedText(FindingsOf(e).results))

\* The part of the report a file wrote: the lines at the odd segments
\* its history owns.
OwnedSegments(comps) == { i \in 1..Len(owner) : owner[i] = comps }

BlockLines(comps) ==
    LET idx == OwnedSegments(comps)
        first == CHOOSE i \in idx : \A k \in idx : i <= k
    IN  [k \in 1..(Cardinality(idx) \div 2) |-> message[first + 2 * (k - 1)]]

\* Every line of the report ends with its newline.
NewlineTerminated ==
    /\ Len(message) % 2 = 0
    /\ \A i \in 1..Len(message) : (i % 2 = 0) <=> (message[i] = NL)

(* ----------------------------- properties ---------------------------- *)

\* The blocks of the report: the files that own a segment of it.
Contributors == { e \in CandidateFiles : HasFindings(e) }

\* C1: in directory mode the report main reads is a concatenation of
\* complete blocks: one block for each candidate file with findings (its
\* header, then each of its diagnostic lines), none for a file without,
\* and the segments of one block are never separated by another's.
C1_ReportIsBlocks ==
    ReportRead =>
        /\ Len(owner) = Len(message)
        /\ NewlineTerminated
        /\ { owner[i] : i \in 1..Len(owner) } = { e.comps : e \in Contributors }
        /\ \A i, j, k \in 1..Len(owner) :
              (i < j /\ j < k /\ owner[i] = owner[k]) => owner[j] = owner[i]
        /\ \A e \in Contributors :
              LET lines == BlockLines(e.comps)
                  expected == ExpectedLines(e)
              IN  /\ Len(lines) >= Len(expected) + 1
                  /\ lines[1] = "File: " \o PathStr(e.comps)
                  /\ \A k \in 1..Len(expected) :
                        lines[k + 1] = "    " \o expected[k]

\* C1 witness: a report of two blocks, read after a walk that also
\* analysed a file without findings.
C1_Witness ==
    /\ ReportRead
    /\ Cardinality({ owner[i] : i \in 1..Len(owner) }) = 2
    /\ \E a \in analysed : a.result.message = <<>>

\* C2 (as claimed): the block of a file with n findings is its header
\* line and its n indented diagnostic lines, n + 1 lines and no other.
C2_BlockIsHeaderAndLines ==
    ReportRead =>
        \A e \in Contributors :
            /\ BlockLines(e.comps) =
                  << "File: " \o PathStr(e.comps) >>
                  \o [k \in 1..Len(ExpectedLines(e)) |->
                         "    " \o ExpectedLines(e)[k]]
            /\ Len(BlockLines(e.comps)) = Len(FindingsOf(e).results) + 1

\* C3: a run that completes prints the sentinel line alone exactly when
\* no processed file gave a finding, and otherwise the non-empty report
\* without the sentinel.
C3_SentinelOrReport ==
    (pc = "exit" /\ exit_code = 0) =>
        /\ (stdout = Sentinel) <=> (\A a \in analysed : a.result.message = <<>>)
        /\ stdout # Sentinel =>
              /\ stdout # <<>>
              /\ stdout = message
              /\ \A i \in 1..Len(stdout) : stdout[i] # Sentinel[1]

\* C3 witness: a directory run that analysed a file and printed the
\* sentinel.
C3_Witness ==
    /\ ReportRead
    /\ analysed # {}
    /\ stdout = Sentinel

\* C4: the parameter findings are exactly the immediate children of the
\* parameter lists of the function definitions that are plain identifiers
\* or identifiers with a default and whose text is not `self`; no finding
\* is for a typed parameter or for `self`.
C4_ParameterFindings ==
    Detected =>
        LET R == positions.results
            params == { i \in 1..Len(R) : IsParameterFinding(R[i]) }
            found == { [start |-> R[i].start, name |-> R[i].missing_type.name] :
                         i \in params }
            expected ==
                { [start |-> p.start, name |-> p.text] :
                    p \in UNION { UnannotatedParameters(fn) :
                                    fn \in FunctionNodes(tree) } }
        IN  /\ found = expected
            /\ Cardinality(params) = Cardinality(expected)
            /\ \A i \in params : R[i].missing_type.name # << "self" >>

\* C4 witness: findings for a file that writes `self`, a typed parameter
\* and an identifier with a default.
C4_Witness ==
    /\ Detected
    /\ \E i \in 1..Len(positions.results) :
          /\ IsParameterFinding(positions.results[i])
          /\ positions.results[i].missing_type.name = << "b=1" >>
    /\ \E fn \in FunctionNodes(tree) :
          \E p \in ParameterNodes(fn) : p.text = << "self" >>
    /\ \E fn \in FunctionNodes(tree) :
          \E p \in ParameterNodes(fn) : p.kind = "typed_parameter"

\* C5: no missing-return finding is for a function that writes the name
\* `main`, async definitions included, whatever ignore_return is; the
\* parameter findings of such a function are all there.
C5_MainExcluded ==
    Detected =>
        \A fn \in FunctionNodes(tree) :
            (HasNameChild(fn) /\ WrittenName(fn) = << "main" >>) =>
                /\ \A i \in 1..Len(positions.results) :
                      ~(/\ IsReturnFinding(positions.results[i])
                        /\ positions.results[i].start = fn.start)
                /\ \A p \in UnannotatedParameters(fn) :
                      \E i \in 1..Len(positions.results) :
                          /\ IsParameterFinding(positions.results[i])
                          /\ positions.results[i].start = p.start
                          /\ positions.results[i].missing_type.name = p.text

\* C5 witness: an async `main` without return type, with an unannotated
\* parameter, checked with ignore_return off.
C5_Witness ==
    /\ Detected
    /\ ~args.ignore_return
    /\ positions.results # <<>>
    /\ \E fn \in FunctionNodes(tree) :
          /\ fn.children[1].kind = "async"
          /\ HasNameChild(fn)
          /\ WrittenName(fn) = << "main" >>
          /\ ~HasTypeChild(fn)
          /\ UnannotatedParameters(fn) # {}

\* C6: where detection succeeds with ignore_return off, detection with
\* ignore_return on returns the parameter findings of that result, in the
\* same order, and no missing-return finding.
C6_IgnoreReturnKeepsParameters ==
    Detected =>
        LET with == FindMissingTypesPositions(tree, TRUE)
            without == FindMissingTypesPositions(tree, FALSE)
        IN  IF args.ignore_return
               THEN /\ \A i \in 1..Len(positions.results) :
                          IsParameterFinding(positions.results[i])
                    /\ ~without.panicked =>
                          positions.results =
                              SelectSeq(without.results, IsParameterFinding)
               ELSE /\ ~with.panicked
                    /\ with.results =
                          SelectSeq(positions.results, IsParameterFinding)

\* C6 witness: a run with ignore_return on, on a tree that gives both
\* kinds of finding with ignore_return off.
C6_Witness ==
    /\ Detected
    /\ args.ignore_return
    /\ positions.results # <<>>
    /\ LET without == FindMissingTypesPositions(tree, FALSE)
       IN  /\ ~without.panicked
           /\ \E i \in 1..Len(without.results) : IsReturnFinding(without.results[i])

\* C7: the findings follow the document order of the functions they
\* belong to, a nested function after the enclosing one; within a
\* function the parameter findings come left to right and before the
\* missing-return finding; the lines of the text follow the findings.
C7_DocumentOrder ==
    Detected =>
        LET R == positions.results
        IN  /\ \A i \in 1..Len(R) : \E fn \in FunctionNodes(tree) : Owns(fn, R[i])
            /\ \A i, j \in 1..Len(R) : \A fi, fj \in FunctionNodes(tree) :
                  (i < j /\ Owns(fi, R[i]) /\ Owns(fj, R[j])) =>
                      /\ fi = fj \/ Before(fi.start, fj.start)
                      /\ fi = fj =>
                            /\ IsParameterFinding(R[i])
                            /\ IsParameterFinding(R[j]) =>
                                  Before(R[i].start, R[j].start)
            /\ pc \in {"print", "exit"} => message = ExpectedText(R)

\* C7 witness: the text of a file with a function nested in another,
\* both with a parameter finding and a missing-return finding.
C7_Witness ==
    /\ Detected
    /\ pc = "print"
    /\ Len(positions.results) >= 4
    /\ \E fn, inner \in FunctionNodes(tree) :
          /\ inner # fn
          /\ inner \in Descendants(fn)
          /\ \E i, j \in 1..Len(positions.results) :
                /\ IsReturnFinding(positions.results[i])
                /\ IsParameterFinding(positions.results[j])
                /\ Owns(fn, positions.results[i])
                /\ Owns(inner, positions.results[j])

\* A file the run reads cannot be read as text: the given file, or a
\* candidate file of the walk.
ReadsUnreadableFile ==
    IF root.is_dir
        THEN \E e \in CandidateFiles : ~e.node.source.readable
        ELSE ~root.source.readable

C10_FiltersPruneSubtrees ==
    root.is_dir =>
        /\ \A a \in analysed : AllowedPath(a.comps)
        /\ ReportRead =>
              { a.comps : a \in analysed } = { e.comps : e \in CandidateFiles }

\* C10 witness: a walk with both filters on that analysed a file and
\* left out a hidden directory holding a .py file.
C10_Witness ==
    /\ ReportRead
    /\ args.ignore_hidden
    /\ args.ignore_tests
    /\ analysed # {}
    /\ \E e \in FilesBelow(Entry(<<root.name>>, root)) :
          /\ e.node.is_dir
          /\ IsHiddenName(FileName(e))
          /\ e.node.children # {}

=============================================================================
